---- MODULE Spec2Model ----
(***************************************************************************)
(* Model of the row classification and flagging pipeline of                *)
(* top_media_combiner.py: URL resolution, locale detection, group/outlet   *)
(* mapping, excluded-author marking and the '?' / 'R Reason' columns.      *)
(*                                                                         *)
(* Text values are sequences of one-character strings, so that lowering,   *)
(* trimming, substring tests and the regular expressions of the source are *)
(* computed character by character.                                        *)
(***************************************************************************)
EXTENDS Naturals, Integers, Sequences, FiniteSets, TLC

(***************************************************************************)
(* Text primitives (Python str / re / pandas .str methods).                *)
(***************************************************************************)

LOWERCASE ==
    {
      "a", "b", "c", "d", "e", "f", "g",
      "h", "i", "j", "k", "l", "m", "n",
      "o", "p", "q", "r", "s", "t", "u",
      "v", "w", "x", "y", "z"
    }

UPPERCASE ==
    {
      "A", "B", "C", "D", "E", "F", "G",
      "H", "I", "J", "K", "L", "M", "N",
      "O", "P", "Q", "R", "S", "T", "U",
      "V", "W", "X", "Y", "Z"
    }

\* the lowercase form of each uppercase letter, and the converse
TO_LOWER ==
    ("A" :> "a") @@ ("B" :> "b") @@ ("C" :> "c") @@ ("D" :> "d") @@ ("E" :> "e") @@
    ("F" :> "f") @@ ("G" :> "g") @@ ("H" :> "h") @@ ("I" :> "i") @@ ("J" :> "j") @@
    ("K" :> "k") @@ ("L" :> "l") @@ ("M" :> "m") @@ ("N" :> "n") @@ ("O" :> "o") @@
    ("P" :> "p") @@ ("Q" :> "q") @@ ("R" :> "r") @@ ("S" :> "s") @@ ("T" :> "t") @@
    ("U" :> "u") @@ ("V" :> "v") @@ ("W" :> "w") @@ ("X" :> "x") @@ ("Y" :> "y") @@
    ("Z" :> "z")

TO_UPPER ==
    ("a" :> "A") @@ ("b" :> "B") @@ ("c" :> "C") @@ ("d" :> "D") @@ ("e" :> "E") @@
    ("f" :> "F") @@ ("g" :> "G") @@ ("h" :> "H") @@ ("i" :> "I") @@ ("j" :> "J") @@
    ("k" :> "K") @@ ("l" :> "L") @@ ("m" :> "M") @@ ("n" :> "N") @@ ("o" :> "O") @@
    ("p" :> "P") @@ ("q" :> "Q") @@ ("r" :> "R") @@ ("s" :> "S") @@ ("t" :> "T") @@
    ("u" :> "U") @@ ("v" :> "V") @@ ("w" :> "W") @@ ("x" :> "X") @@ ("y" :> "Y") @@
    ("z" :> "Z")

\* pandas NaN / Python None in a text column
NaN == <<"NaN">>

\* re.match(...) found nothing
None == <<"None">>

IsLower(c) == c \in LOWERCASE

IsUpper(c) == c \in UPPERCASE

IsSpace(c) == c = " "

lower_char(c) == IF IsUpper(c) THEN TO_LOWER[c] ELSE c

upper_char(c) == IF IsLower(c) THEN TO_UPPER[c] ELSE c

\* str.lower()
RECURSIVE lower(_)
lower(s) == IF s = <<>> THEN <<>> ELSE <<lower_char(Head(s))>> \o lower(Tail(s))

\* str.upper()
RECURSIVE upper(_)
upper(s) == IF s = <<>> THEN <<>> ELSE <<upper_char(Head(s))>> \o upper(Tail(s))

\* s[i:] (0-based start), the tail after dropping n characters
drop(s, n) == IF n >= Len(s) THEN <<>> ELSE SubSeq(s, n + 1, Len(s))

\* s[:n]
take(s, n) == IF n >= Len(s) THEN s ELSE SubSeq(s, 1, n)

\* number of leading characters of s that satisfy the class test
RECURSIVE lead_spaces(_)
lead_spaces(s) ==
    IF s # <<>> /\ IsSpace(Head(s)) THEN 1 + lead_spaces(Tail(s)) ELSE 0

RECURSIVE trail_spaces(_)
trail_spaces(s) ==
    IF s # <<>> /\ IsSpace(s[Len(s)])
    THEN 1 + trail_spaces(SubSeq(s, 1, Len(s) - 1))
    ELSE 0

\* str.lstrip()
lstrip(s) == drop(s, lead_spaces(s))

\* str.strip()
strip(s) ==
    LET l == lstrip(s)
    IN  take(l, Len(l) - trail_spaces(l))

\* str.startswith / str.endswith
startswith(s, p) == Len(p) <= Len(s) /\ SubSeq(s, 1, Len(p)) = p

endswith(s, p) == Len(p) <= Len(s) /\ SubSeq(s, Len(s) - Len(p) + 1, Len(s)) = p

\* `sub in s`
contains(s, sub) ==
    \E i \in 0..(Len(s) - Len(sub)) : SubSeq(s, i + 1, i + Len(sub)) = sub

\* s.find(c) for a set of characters: 0-based index of the first character in cs,
\* or Len(s) when there is none
RECURSIVE find_first(_, _)
find_first(s, cs) ==
    IF s = <<>> \/ Head(s) \in cs THEN 0 ELSE 1 + find_first(Tail(s), cs)

\* s.split(sep) for a one-character separator
RECURSIVE split(_, _)
split(s, sep) ==
    LET i == find_first(s, {sep})
    IN  IF i >= Len(s) THEN <<s>>
        ELSE <<take(s, i)>> \o split(drop(s, i + 1), sep)

\* sep.join(parts)
RECURSIVE join(_, _)
join(parts, sep) ==
    IF parts = <<>> THEN <<>>
    ELSE IF Len(parts) = 1 THEN parts[1]
    ELSE parts[1] \o sep \o join(Tail(parts), sep)

\* [x for x in seq if x], dropping the empty strings
RECURSIVE non_empty(_)
non_empty(parts) ==
    IF parts = <<>> THEN <<>>
    ELSE IF Head(parts) = <<>> THEN non_empty(Tail(parts))
    ELSE <<Head(parts)>> \o non_empty(Tail(parts))

\* length of the leading run of lowercase letters, the greedy [a-z]+
RECURSIVE lead_lower(_)
lead_lower(s) ==
    IF s # <<>> /\ IsLower(Head(s)) THEN 1 + lead_lower(Tail(s)) ELSE 0

(***************************************************************************)
(* Program constants (top_media_combiner.py) and labels.                   *)
(***************************************************************************)

NON_US_SUBDOMAIN_TOKENS ==
    {
      <<"u","k">>, <<"g","b">>, <<"a","u">>, <<"m","e">>, <<"s","e","a">>,
      <<"c","a">>, <<"s","g">>, <<"h","k">>, <<"n","z">>, <<"i","e">>,
      <<"e","u">>, <<"m","e","n","a">>, <<"l","a","t","a","m">>, <<"s","a">>, <<"z","a">>,
      <<"d","e">>, <<"f","r">>, <<"e","s">>, <<"i","t">>, <<"n","l">>,
      <<"s","e">>, <<"n","o">>, <<"d","k">>, <<"f","i">>, <<"p","l">>,
      <<"t","r">>, <<"j","p">>, <<"k","r">>, <<"c","n">>, <<"t","w">>,
      <<"v","n">>, <<"t","h">>, <<"p","h">>, <<"m","y">>, <<"i","d">>,
      <<"a","e">>, <<"q","a">>, <<"k","w">>, <<"b","h">>, <<"b","r">>,
      <<"m","x">>, <<"a","r">>, <<"c","l">>, <<"c","o">>, <<"p","e">>,
      <<"a","p","a","c">>, <<"e","m","e","a">>
    }

PATH_LOCALE_ALLOWED_DOMAINS ==
    {
      <<"t","e","c","h","r","a","d","a","r",".","c","o","m">>,
      <<"w","w","w",".","t","e","c","h","r","a","d","a","r",".","c","o","m">>,
      <<"t","o","m","s","g","u","i","d","e",".","c","o","m">>,
      <<"w","w","w",".","t","o","m","s","g","u","i","d","e",".","c","o","m">>,
      <<"g","a","m","e","s","r","a","d","a","r",".","c","o","m">>,
      <<"w","w","w",".","g","a","m","e","s","r","a","d","a","r",".","c","o","m">>,
      <<"a","n","d","r","o","i","d","c","e","n","t","r","a","l",".","c","o","m">>,
      <<"w","w","w",".","a","n","d","r","o","i","d","c","e","n","t","r","a","l",".","c","o","m">>,
      <<"w","i","n","d","o","w","s","c","e","n","t","r","a","l",".","c","o","m">>,
      <<"w","w","w",".","w","i","n","d","o","w","s","c","e","n","t","r","a","l",".","c","o","m">>,
      <<"l","a","p","t","o","p","m","a","g",".","c","o","m">>,
      <<"w","w","w",".","l","a","p","t","o","p","m","a","g",".","c","o","m">>,
      <<"i","m","o","r","e",".","c","o","m">>,
      <<"w","w","w",".","i","m","o","r","e",".","c","o","m">>,
      <<"i","g","n",".","c","o","m">>,
      <<"w","w","w",".","i","g","n",".","c","o","m">>,
      <<"c","n","e","t",".","c","o","m">>,
      <<"w","w","w",".","c","n","e","t",".","c","o","m">>,
      <<"f","o","r","b","e","s",".","c","o","m">>,
      <<"w","w","w",".","f","o","r","b","e","s",".","c","o","m">>,
      <<"y","a","h","o","o",".","c","o","m">>,
      <<"w","w","w",".","y","a","h","o","o",".","c","o","m">>,
      <<"b","b","c",".","c","o","m">>,
      <<"w","w","w",".","b","b","c",".","c","o","m">>,
      <<"e","n","g","a","d","g","e","t",".","c","o","m">>,
      <<"w","w","w",".","e","n","g","a","d","g","e","t",".","c","o","m">>,
      <<"d","i","g","i","t","a","l","t","r","e","n","d","s",".","c","o","m">>,
      <<"w","w","w",".","d","i","g","i","t","a","l","t","r","e","n","d","s",".","c","o","m">>
    }

TARGET_SCRAPE_DOMAINS ==
    {
      <<"f","o","r","b","e","s",".","c","o","m">>,
      <<"w","w","w",".","f","o","r","b","e","s",".","c","o","m">>,
      <<"t","e","c","h","r","a","d","a","r",".","c","o","m">>,
      <<"w","w","w",".","t","e","c","h","r","a","d","a","r",".","c","o","m">>,
      <<"t","o","m","s","g","u","i","d","e",".","c","o","m">>,
      <<"w","w","w",".","t","o","m","s","g","u","i","d","e",".","c","o","m">>
    }

US_MSN_LOCALES ==
    {
      <<"e","n","-","u","s">>, <<"e","s","-","u","s">>
    }

US_PATH_TOKENS ==
    {
      <<"u","s">>, <<"e","n","-","u","s">>, <<"e","n","_","u","s">>
    }

PUBLIC_SUFFIXES ==
    {
      <<"c","o","m">>, <<"n","e","t">>, <<"o","r","g">>, <<"u","k">>,
      <<"c","o",".","u","k">>, <<"d","e">>, <<"m","e">>
    }

MSN_MARKER == <<"m","s","n",".","c","o","m">>

SCHEME_SEP == <<":","/","/">>

REMOVE == <<"R","E","M","O","V","E">>

TECH == <<"T","e","c","h">>

MSN == <<"M","S","N">>

LIFESTYLE == <<"L","i","f","e","s","t","y","l","e">>

YES == <<"Y","e","s">>

EXUS == <<"E","X","U","S">>

NAN_TEXT == <<"n","a","n">>

US == <<"u","s">>

DUPLICATE_URL == <<"D","u","p","l","i","c","a","t","e"," ","U","R","L">>

EXUS_AUTHOR == <<"E","x","U","S"," ","A","u","t","h","o","r">>

REMOVE_GROUP == <<"R","E","M","O","V","E"," ","G","r","o","u","p">>

REMOVE_OUTLET == <<"R","E","M","O","V","E"," ","O","u","t","l","e","t">>

MSN_NON_US == <<"M","S","N"," ","N","o","n","-","U","S">>

NON_US_URL == <<"N","o","n","-","U","S"," ","U","R","L">>

REASON_SEP == <<";"," ">>

HTTP == <<"h","t","t","p",":","/","/">>

HTTPS == <<"h","t","t","p","s",":","/","/">>

YAHOO_SPORTS_SUB == <<"s","p","o","r","t","s",".","y","a","h","o","o">>

YAHOO_ENT_SUB == <<"y","a","h","o","o",".","c","o","m","/","e","n","t","e","r","t","a","i","n","m","e","n","t">>

YAHOO_LIFE_SUB == <<"y","a","h","o","o",".","c","o","m","/","l","i","f","e","s","t","y","l","e">>

YAHOO_FIN_SUB == <<"f","i","n","a","n","c","e",".","y","a","h","o","o",".","c","o","m">>

YAHOO_NEWS_SUB == <<"y","a","h","o","o",".","c","o","m","/","n","e","w","s">>

YAHOO_TECH_SUB == <<"y","a","h","o","o",".","c","o","m","/","t","e","c","h">>

YAHOO_SPORTS == <<"Y","a","h","o","o","!"," ","S","p","o","r","t","s">>

YAHOO_ENT == <<"Y","a","h","o","o","!"," ","E","n","t","e","r","t","a","i","n","m","e","n","t">>

YAHOO_LIFE == <<"Y","a","h","o","o","!"," ","L","i","f","e","s","t","y","l","e">>

YAHOO_FIN == <<"Y","a","h","o","o","!"," ","F","i","n","a","n","c","e">>

YAHOO_NEWS == <<"Y","a","h","o","o","!"," ","N","e","w","s">>

YAHOO_TECH == <<"Y","a","h","o","o","!"," ","T","e","c","h">>

SPRINKLR == <<"S","p","r","i","n","k","l","r">>

CISION == <<"C","i","s","i","o","n">>


(***************************************************************************)
(* Library calls used by the program: urllib.parse.urlparse and            *)
(* tldextract.extract.                                                     *)
(***************************************************************************)

IsAlpha(c) == IsLower(c) \/ IsUpper(c)

IsDigit(c) == c \in {"0","1","2","3","4","5","6","7","8","9"}

\* urllib.parse scheme_chars
IsSchemeChar(c) == IsAlpha(c) \/ IsDigit(c) \/ c \in {"+", "-", "."}

\* urlparse(u): leading blanks are dropped, a scheme is what precedes the first ':'
\* when it is made of scheme characters and starts with a letter, the netloc follows
\* "//" up to the first of / ? #, and the path ends at the first ? or #.
urlparse(u) ==
    LET url0   == lstrip(u)
        i      == find_first(url0, {":"})
        hasSch == /\ i > 0
                  /\ i < Len(url0)
                  /\ IsAlpha(url0[1])
                  /\ \A k \in 1..i : IsSchemeChar(url0[k])
        scheme == IF hasSch THEN lower(take(url0, i)) ELSE <<>>
        url1   == IF hasSch THEN drop(url0, i + 1) ELSE url0
        hasNet == startswith(url1, <<"/","/">>)
        rest   == IF hasNet THEN drop(url1, 2) ELSE url1
        n      == IF hasNet THEN find_first(rest, {"/", "?", "#"}) ELSE 0
        netloc == take(rest, n)
        url2   == drop(rest, n)
        p      == find_first(url2, {"?", "#"})
    IN  [scheme |-> scheme, netloc |-> netloc, path |-> take(url2, p)]

\* longest public suffix of the labels, counted in labels (0 when none matches)
suffix_labels(labels) ==
    LET n    == Len(labels)
        fits == {k \in 1..n : join(SubSeq(labels, n - k + 1, n), <<".">>) \in PUBLIC_SUFFIXES}
    IN  IF fits = {} THEN 0 ELSE CHOOSE k \in fits : \A j \in fits : j <= k

\* tldextract.extract(host): subdomain, domain and suffix of a host name
tldextract(host) ==
    LET labels == split(host, ".")
        n      == Len(labels)
        k      == suffix_labels(labels)
        suffix == join(SubSeq(labels, n - k + 1, n), <<".">>)
        domain == IF n - k >= 1 THEN labels[n - k] ELSE <<>>
        sub    == join(SubSeq(labels, 1, n - k - 1), <<".">>)
    IN  [subdomain |-> sub, domain |-> domain, suffix |-> suffix]

(***************************************************************************)
(* MSN handling helpers.                                                   *)
(***************************************************************************)

\* re.match(r"/([a-z]{2}-[a-z]{2})(?:/|$)", path.lower())
msn_locale(path) ==
    LET p == lower(path)
    IN  IF /\ Len(p) >= 6
           /\ p[1] = "/"
           /\ IsLower(p[2]) /\ IsLower(p[3])
           /\ p[4] = "-"
           /\ IsLower(p[5]) /\ IsLower(p[6])
           /\ (Len(p) = 6 \/ p[7] = "/")
        THEN SubSeq(p, 2, 6)
        ELSE None

\* re.sub(r"^[a-z]+://[^/]+", "", s): drops a leading scheme://host
strip_scheme_host(s) ==
    LET a    == lead_lower(s)
        rest == drop(s, a + 3)
        h    == find_first(rest, {"/"})
    IN  IF a >= 1 /\ Len(s) >= a + 3 /\ SubSeq(s, a + 1, a + 3) = SCHEME_SEP /\ h >= 1
        THEN drop(rest, h)
        ELSE s

\* str(x) of a cell: NaN prints as "nan"
str(x) == IF x = NaN THEN NAN_TEXT ELSE x

\* pd.isna(x)
isna(x) == x = NaN

(***************************************************************************)
(* URL resolution.                                                         *)
(***************************************************************************)

\* requests.get raised (timeout, DNS error, refused connection, missing scheme)
NetFail == <<"NetFail">>

\* The redirects the web serves during a run: a tracking link and where it lands.
REDIRECTS ==
    {
      [from |-> <<"h","t","t","p",":","/","/","t","r","k",".","e","x","a","m","p","l","e",".","n","e","t","/","r","1">>,
       to   |-> <<"h","t","t","p","s",":","/","/","w","w","w",".","t","e","c","h","r","a","d","a","r",".","c","o","m","/","u","k","/","s","t","o","r","y">>],
      [from |-> <<"h","t","t","p",":","/","/","t","r","k",".","e","x","a","m","p","l","e",".","n","e","t","/","r","2">>,
       to   |-> <<"h","t","t","p","s",":","/","/","w","w","w",".","m","s","n",".","c","o","m","/","e","n","-","g","b","/","n","e","w","s","/","a">>]
    }

\* r.url of a request that succeeded: the landing page of a redirect, else the URL asked for
final_url(url) ==
    LET asked == lstrip(url)
    IN  IF \E r \in REDIRECTS : r.from = asked
        THEN (CHOOSE r \in REDIRECTS : r.from = asked).to
        ELSE asked

\* what requests.get(url, allow_redirects=True, ...) can do: raise, or (for an http(s)
\* URL) answer with the final URL
requests_get(url) ==
    LET asked == lower(lstrip(url))
    IN  {NetFail} \cup
        (IF startswith(asked, HTTP) \/ startswith(asked, HTTPS) THEN {final_url(url)} ELSE {})

\* variant: a failed request yields "" instead of the URL asked for
resolve_url_blank_on_failure(url, net) ==
    IF isna(url) \/ url = <<>> THEN <<>>
    ELSE IF contains(lower(str(url)), MSN_MARKER) THEN url
    ELSE IF net = NetFail THEN <<>>
    ELSE net

\* resolve_url(url), given the outcome `net` of the one request it may issue
resolve_url(url, net) ==
    IF isna(url) \/ url = <<>> THEN <<>>
    ELSE IF contains(lower(str(url)), MSN_MARKER) THEN url
    ELSE IF net = NetFail THEN url
    ELSE net

\* TRUE when resolve_url(url) reaches requests.get
issues_request(url) ==
    ~(isna(url) \/ url = <<>>) /\ ~contains(lower(str(url)), MSN_MARKER)

(***************************************************************************)
(* Non-US locale detection.                                                *)
(***************************************************************************)

PATH_LOCALE_TOKENS == NON_US_SUBDOMAIN_TOKENS

\* _lang_region_re = ^[a-z]{2,3}[-_](?:[a-z]{2}|[a-z]{3})$ with re.I
lang_region_re(seg) ==
    \E a \in {2, 3} : \E b \in {2, 3} :
        /\ Len(seg) = a + 1 + b
        /\ \A k \in 1..a : IsAlpha(seg[k])
        /\ seg[a + 1] \in {"-", "_"}
        /\ \A k \in (a + 2)..(a + 1 + b) : IsAlpha(seg[k])

base_domain_and_subtokens(host) ==
    LET h   == lower(host)
        ext == tldextract(h)
    IN  [base |-> join(non_empty(<<ext.domain, ext.suffix>>), <<".">>),
         subs |-> non_empty(split(ext.subdomain, "."))]

\* next((seg for seg in path.split("/") if seg), "").lower()
first_segment(path) ==
    LET segs == non_empty(split(path, "/"))
    IN  IF segs = <<>> THEN <<>> ELSE lower(segs[1])

\* variant: the explicit-US path test made before the subdomain rule
mark_non_us_url_path_first(u) ==
    IF u = <<>> THEN FALSE
    ELSE
        LET p         == urlparse(str(u))
            bs        == base_domain_and_subtokens(p.netloc)
            first_seg == first_segment(p.path)
        IN  IF endswith(first_seg, US) \/ first_seg \in US_PATH_TOKENS
            THEN FALSE
            ELSE IF \E k \in 1..Len(bs.subs) : bs.subs[k] \in NON_US_SUBDOMAIN_TOKENS
            THEN TRUE
            ELSE bs.base \in PATH_LOCALE_ALLOWED_DOMAINS
                    /\ (first_seg \in PATH_LOCALE_TOKENS \/ lang_region_re(first_seg))

\* variant: rule 2 without the allow-list test
mark_non_us_url_any_domain(u) ==
    IF u = <<>> THEN FALSE
    ELSE
        LET p         == urlparse(str(u))
            bs        == base_domain_and_subtokens(p.netloc)
            first_seg == first_segment(p.path)
        IN  IF \E k \in 1..Len(bs.subs) : bs.subs[k] \in NON_US_SUBDOMAIN_TOKENS
            THEN TRUE
            ELSE IF first_seg \in PATH_LOCALE_TOKENS \/ lang_region_re(first_seg)
            THEN ~(endswith(first_seg, US) \/ first_seg \in US_PATH_TOKENS)
            ELSE FALSE

mark_non_us_url(u) ==
    IF u = <<>> THEN FALSE
    ELSE
        LET p         == urlparse(str(u))
            bs        == base_domain_and_subtokens(p.netloc)
            first_seg == first_segment(p.path)
        IN  IF \E k \in 1..Len(bs.subs) : bs.subs[k] \in NON_US_SUBDOMAIN_TOKENS
            THEN TRUE
            ELSE IF bs.base \in PATH_LOCALE_ALLOWED_DOMAINS
                     /\ (first_seg \in PATH_LOCALE_TOKENS \/ lang_region_re(first_seg))
            THEN IF endswith(first_seg, US) \/ first_seg \in US_PATH_TOKENS
                 THEN FALSE
                 ELSE TRUE
            ELSE FALSE

(***************************************************************************)
(* Journalist backfill.                                                    *)
(***************************************************************************)

\* the page yielded no byline
NoByline == <<"NoByline">>

\* bylines a fetched article page can carry
SCRAPED_NAMES ==
    {
      <<"S","a","m"," ","P","o","e">>
    }

\* TRUE when fill_missing_journalist(permalink, journalist) reaches _fetch_html
scrapes_byline(permalink, journalist) ==
    /\ ~(~isna(journalist) /\ strip(str(journalist)) # <<>>)
    /\ lower(urlparse(permalink).netloc) \in TARGET_SCRAPE_DOMAINS

\* fill_missing_journalist(permalink, journalist), given what the scrape found
fill_missing_journalist(permalink, journalist, scraped) ==
    IF ~isna(journalist) /\ strip(str(journalist)) # <<>> THEN journalist
    ELSE IF lower(urlparse(permalink).netloc) \notin TARGET_SCRAPE_DOMAINS THEN journalist
    ELSE IF scraped # NoByline THEN scraped
    ELSE journalist

(***************************************************************************)
(* Group/Outlet mapping.                                                   *)
(***************************************************************************)

Pair(g, o) == [Group |-> g, Outlet |-> o]

\* variant: the master_map lookup by publication name made before the MSN rule
map_group_outlet_master_first(url, pub_name, master) ==
    LET url_lc      == lower(strip(str(url)))
        pub_name_lc == lower(strip(str(pub_name)))
    IN  IF pub_name_lc \in DOMAIN master THEN master[pub_name_lc]
        ELSE IF contains(url_lc, MSN_MARKER)
        THEN IF msn_locale(strip_scheme_host(url_lc)) \in US_MSN_LOCALES
             THEN Pair(TECH, MSN)
             ELSE Pair(REMOVE, REMOVE)
        ELSE IF url_lc \in DOMAIN master THEN master[url_lc]
        ELSE Pair(<<>>, <<>>)

\* variant: the yahoo.com/news rule tried before the finance.yahoo.com rule
map_group_outlet_news_first(url, pub_name, master) ==
    LET url_lc      == lower(strip(str(url)))
        pub_name_lc == lower(strip(str(pub_name)))
    IN  IF contains(url_lc, MSN_MARKER)
        THEN IF msn_locale(strip_scheme_host(url_lc)) \in US_MSN_LOCALES
             THEN Pair(TECH, MSN)
             ELSE Pair(REMOVE, REMOVE)
        ELSE IF contains(url_lc, YAHOO_SPORTS_SUB) THEN Pair(LIFESTYLE, YAHOO_SPORTS)
        ELSE IF contains(url_lc, YAHOO_ENT_SUB) THEN Pair(LIFESTYLE, YAHOO_ENT)
        ELSE IF contains(url_lc, YAHOO_LIFE_SUB) THEN Pair(LIFESTYLE, YAHOO_LIFE)
        ELSE IF contains(url_lc, YAHOO_NEWS_SUB) THEN Pair(TECH, YAHOO_NEWS)
        ELSE IF contains(url_lc, YAHOO_FIN_SUB) THEN Pair(TECH, YAHOO_FIN)
        ELSE IF contains(url_lc, YAHOO_TECH_SUB) THEN Pair(TECH, YAHOO_TECH)
        ELSE IF pub_name_lc \in DOMAIN master THEN master[pub_name_lc]
        ELSE IF url_lc \in DOMAIN master THEN master[url_lc]
        ELSE Pair(<<>>, <<>>)

map_group_outlet(url, pub_name, master) ==
    LET url_lc      == lower(strip(str(url)))
        pub_name_lc == lower(strip(str(pub_name)))
    IN  IF contains(url_lc, MSN_MARKER)
        THEN IF msn_locale(strip_scheme_host(url_lc)) \in US_MSN_LOCALES
             THEN Pair(TECH, MSN)
             ELSE Pair(REMOVE, REMOVE)
        ELSE IF contains(url_lc, YAHOO_SPORTS_SUB) THEN Pair(LIFESTYLE, YAHOO_SPORTS)
        ELSE IF contains(url_lc, YAHOO_ENT_SUB) THEN Pair(LIFESTYLE, YAHOO_ENT)
        ELSE IF contains(url_lc, YAHOO_LIFE_SUB) THEN Pair(LIFESTYLE, YAHOO_LIFE)
        ELSE IF contains(url_lc, YAHOO_FIN_SUB) THEN Pair(TECH, YAHOO_FIN)
        ELSE IF contains(url_lc, YAHOO_NEWS_SUB) THEN Pair(TECH, YAHOO_NEWS)
        ELSE IF contains(url_lc, YAHOO_TECH_SUB) THEN Pair(TECH, YAHOO_TECH)
        ELSE IF pub_name_lc \in DOMAIN master THEN master[pub_name_lc]
        ELSE IF url_lc \in DOMAIN master THEN master[url_lc]
        ELSE Pair(<<>>, <<>>)

(***************************************************************************)
(* Reference workbook: the "Detailed List for Msmt" and "Journalist Check"  *)
(* sheets as read for a run.                                               *)
(***************************************************************************)

detailed_list ==
    <<
      [Vertical |-> <<"T","e","c","h">>,
       OutletName |-> <<"T","e","c","h","C","r","u","n","c","h">>,
       OutletNameFromSearches |-> NaN,
       URL |-> <<"t","e","c","h","c","r","u","n","c","h",".","c","o","m">>],
      [Vertical |-> <<"T","e","c","h">>,
       OutletName |-> <<"T","e","c","h","R","a","d","a","r">>,
       OutletNameFromSearches |-> <<"T","e","c","h"," ","R","a","d","a","r">>,
       URL |-> <<"t","e","c","h","r","a","d","a","r",".","c","o","m">>],
      [Vertical |-> <<"R","e","m","o","v","e">>,
       OutletName |-> <<"D","a","i","l","y"," ","M","a","i","l">>,
       OutletNameFromSearches |-> <<>>,
       URL |-> <<"d","a","i","l","y","m","a","i","l",".","c","o",".","u","k">>],
      [Vertical |-> <<"L","i","f","e","s","t","y","l","e">>,
       OutletName |-> <<"E","x","a","m","p","l","e"," ","D","a","i","l","y">>,
       OutletNameFromSearches |-> <<"E","x","a","m","p","l","e">>,
       URL |-> <<"h","t","t","p","s",":","/","/","w","w","w",".","e","x","a","m","p","l","e",".","c","o","m","/","u","k","/","s","t","o","r","y">>]
    >>

journalist_check ==
    <<
      [Publication |-> <<"T","e","c","h","C","r","u","n","c","h">>,
       Name |-> <<"J","a","n","e"," ","D","o","e">>,
       Geo |-> <<"E","x","U","S">>],
      [Publication |-> <<" ","T","e","c","h","R","a","d","a","r"," ">>,
       Name |-> <<"S","a","m"," ","P","o","e">>,
       Geo |-> <<"E","X","U","S">>],
      [Publication |-> <<"W","i","r","e","d">>,
       Name |-> <<"J","o","h","n"," ","R","o","e">>,
       Geo |-> <<"U","S">>]
    >>

(***************************************************************************)
(* Permalinks, publication names and journalists that uploaded rows carry. *)
(***************************************************************************)

U_MSN_US ==
    <<"h","t","t","p","s",":","/","/","w","w","w",".","m","s","n",".","c","o","m","/","e","n","-","u","s","/","n","e","w","s","/","a">>

U_MSN_US_UC ==
    <<"h","t","t","p","s",":","/","/","w","w","w",".","M","S","N",".","c","o","m","/","E","N","-","U","S","/","n","e","w","s","/","a">>

U_MSN_ES ==
    <<"h","t","t","p","s",":","/","/","w","w","w",".","m","s","n",".","c","o","m","/","e","s","-","u","s","/","n","o","t","i","c","i","a","s","/","a">>

U_MSN_GB ==
    <<"h","t","t","p","s",":","/","/","w","w","w",".","m","s","n",".","c","o","m","/","e","n","-","g","b","/","n","e","w","s","/","a">>

U_MSN_UKSUB ==
    <<"h","t","t","p","s",":","/","/","u","k",".","m","s","n",".","c","o","m","/","e","n","-","g","b","/","n","e","w","s","/","a">>

U_MSN_QUERY ==
    <<"h","t","t","p","s",":","/","/","w","w","w",".","m","s","n",".","c","o","m","/","e","n","-","u","s","?","o","c","i","d","=","1">>

U_MSN_NOLOC ==
    <<"h","t","t","p","s",":","/","/","w","w","w",".","m","s","n",".","c","o","m","/","n","e","w","s","/","a">>

U_MSN_WS ==
    <<" ","h","t","t","p","s",":","/","/","w","w","w",".","m","s","n",".","c","o","m","/","e","n","-","u","s","/","n","e","w","s","/","a">>

U_MSN_NOSCHEME ==
    <<"w","w","w",".","m","s","n",".","c","o","m","/","e","n","-","u","s","/","n","e","w","s","/","a">>

U_MSN_INPATH ==
    <<"h","t","t","p","s",":","/","/","w","w","w",".","e","x","a","m","p","l","e",".","c","o","m","/","m","s","n",".","c","o","m","/","a">>

U_MSN_LIKE ==
    <<"h","t","t","p","s",":","/","/","w","w","w",".","m","s","n","b","c","o","m",".","n","e","t","/","e","n","-","u","s","/","a">>

U_UK_SUB ==
    <<"h","t","t","p","s",":","/","/","u","k",".","e","x","a","m","p","l","e",".","c","o","m","/","u","s","/","s","t","o","r","y">>

U_UK_SUB_TR ==
    <<"h","t","t","p","s",":","/","/","u","k",".","t","e","c","h","r","a","d","a","r",".","c","o","m","/","u","s","/","s","t","o","r","y">>

U_TR_UK ==
    <<"h","t","t","p","s",":","/","/","w","w","w",".","t","e","c","h","r","a","d","a","r",".","c","o","m","/","u","k","/","s","t","o","r","y">>

U_TR_UK_UC ==
    <<"h","t","t","p","s",":","/","/","w","w","w",".","T","e","c","h","R","a","d","a","r",".","c","o","m","/","U","K","/","s","t","o","r","y">>

U_TR_US ==
    <<"h","t","t","p","s",":","/","/","w","w","w",".","t","e","c","h","r","a","d","a","r",".","c","o","m","/","u","s","/","s","t","o","r","y">>

U_TR_ENUS ==
    <<"h","t","t","p","s",":","/","/","w","w","w",".","t","e","c","h","r","a","d","a","r",".","c","o","m","/","e","n","-","u","s","/","s","t","o","r","y">>

U_TR_PTBR ==
    <<"h","t","t","p","s",":","/","/","w","w","w",".","t","e","c","h","r","a","d","a","r",".","c","o","m","/","p","t","-","b","r","/","s","t","o","r","y">>

U_TR_NEWS ==
    <<"h","t","t","p","s",":","/","/","w","w","w",".","t","e","c","h","r","a","d","a","r",".","c","o","m","/","n","e","w","s","/","s","t","o","r","y">>

U_TR_NOSCHEME ==
    <<"t","e","c","h","r","a","d","a","r",".","c","o","m","/","u","k","/","s","t","o","r","y">>

U_EX_UK ==
    <<"h","t","t","p","s",":","/","/","w","w","w",".","e","x","a","m","p","l","e",".","c","o","m","/","u","k","/","s","t","o","r","y">>

U_EX_PTBR ==
    <<"h","t","t","p","s",":","/","/","w","w","w",".","e","x","a","m","p","l","e",".","c","o","m","/","p","t","-","b","r","/","s","t","o","r","y">>

U_TRK1 ==
    <<"h","t","t","p",":","/","/","t","r","k",".","e","x","a","m","p","l","e",".","n","e","t","/","r","1">>

U_TRK2 ==
    <<"h","t","t","p",":","/","/","t","r","k",".","e","x","a","m","p","l","e",".","n","e","t","/","r","2">>

U_Y_SPORTS ==
    <<"h","t","t","p","s",":","/","/","s","p","o","r","t","s",".","y","a","h","o","o",".","c","o","m","/","n","f","l","/","a">>

U_Y_FIN_NEWS ==
    <<"h","t","t","p","s",":","/","/","f","i","n","a","n","c","e",".","y","a","h","o","o",".","c","o","m","/","n","e","w","s","/","a">>

U_Y_NEWS ==
    <<"h","t","t","p","s",":","/","/","w","w","w",".","y","a","h","o","o",".","c","o","m","/","n","e","w","s","/","a">>

U_Y_TECH ==
    <<"h","t","t","p","s",":","/","/","w","w","w",".","y","a","h","o","o",".","c","o","m","/","t","e","c","h","/","a">>

U_Y_UK ==
    <<"h","t","t","p","s",":","/","/","u","k",".","y","a","h","o","o",".","c","o","m","/","l","i","f","e","s","t","y","l","e","/","a">>

\* https://www.msn.com/en-us/a?u=sports.yahoo.com
U_MSN_YAHOO ==
    <<"h","t","t","p","s",":","/","/","w","w","w",".","m","s","n",".","c","o","m","/","e","n","-","u","s","/","a","?","u","=","s","p","o","r","t","s",".","y","a","h","o","o",".","c","o","m">>

\* https://sports.yahoo.com/entertainment/a
U_Y_SPORTS_ENT ==
    <<"h","t","t","p","s",":","/","/","s","p","o","r","t","s",".","y","a","h","o","o",".","c","o","m","/","e","n","t","e","r","t","a","i","n","m","e","n","t","/","a">>

\* https://www.yahoo.com/entertainment/a?r=yahoo.com/lifestyle
U_Y_ENT_LIFE ==
    <<"h","t","t","p","s",":","/","/","w","w","w",".","y","a","h","o","o",".","c","o","m","/","e","n","t","e","r","t","a","i","n","m","e","n","t","/","a","?","r","=","y","a","h","o","o",".","c","o","m","/","l","i","f","e","s","t","y","l","e">>

\* https://www.yahoo.com/lifestyle/a?r=finance.yahoo.com
U_Y_LIFE_FIN ==
    <<"h","t","t","p","s",":","/","/","w","w","w",".","y","a","h","o","o",".","c","o","m","/","l","i","f","e","s","t","y","l","e","/","a","?","r","=","f","i","n","a","n","c","e",".","y","a","h","o","o",".","c","o","m">>

\* https://www.yahoo.com/news/a?r=yahoo.com/tech
U_Y_NEWS_TECH ==
    <<"h","t","t","p","s",":","/","/","w","w","w",".","y","a","h","o","o",".","c","o","m","/","n","e","w","s","/","a","?","r","=","y","a","h","o","o",".","c","o","m","/","t","e","c","h">>

P_MSN == <<"M","S","N">>

P_TECHCRUNCH == <<"T","e","c","h","C","r","u","n","c","h">>

P_TECHCRUNCH_LC == <<"t","e","c","h","c","r","u","n","c","h", " ">>

P_TECHRADAR == <<"T","e","c","h","R","a","d","a","r">>

P_DAILYMAIL == <<"D","a","i","l","y"," ","M","a","i","l">>

P_WIRED == <<"W","i","r","e","d">>

P_UNKNOWN == <<"U","n","k","n","o","w","n"," ","B","l","o","g">>

P_EXAMPLE == <<"E","x","a","m","p","l","e">>

J_JANE == <<"J","a","n","e"," ","D","o","e">>

J_JANE_WS == <<" ","J","A","N","E"," ","D","O","E"," ">>

J_JANE_INNER == <<"J","a","n","e"," "," ","D","o","e">>

J_JOHN == <<"J","o","h","n"," ","R","o","e">>

J_SAM == <<"S","a","m"," ","P","o","e">>

J_BLANK == <<" ">>

Row(permalink, pub, journalist) ==
    [Permalink |-> permalink, PublicationName |-> pub, Journalist |-> journalist]

\* rows the Sprinklr export can hold: an empty Permalink cell is read as NaN
SPRINKLR_ROWS ==
    {
      Row(U_MSN_US,    P_MSN,        J_JOHN),
      Row(U_MSN_GB,    P_MSN,        <<>>),
      Row(U_MSN_UKSUB, P_TECHCRUNCH, J_JANE_WS),
      Row(U_TR_UK,     P_TECHRADAR,  <<>>),
      Row(U_TRK1,      P_TECHCRUNCH, J_JANE_INNER),
      Row(NaN,         P_TECHCRUNCH, J_JANE),
      Row(U_MSN_WS,    P_MSN,        NaN),
      Row(U_EX_UK,     P_DAILYMAIL,  J_JOHN),
      Row(U_MSN_QUERY, P_UNKNOWN,    J_BLANK),
      Row(U_MSN_INPATH, P_WIRED,     J_JOHN)
    }

\* rows the Cision export can hold, the link taken out of its HYPERLINK formula:
\* extract_cision_url turns an empty cell into ""
CISION_ROWS ==
    {
      Row(U_MSN_US_UC, P_MSN,           J_JOHN),
      Row(U_TR_UK_UC,  P_TECHRADAR,     J_SAM),
      Row(<<>>,        P_WIRED,         J_JOHN),
      Row(<<>>,        P_TECHCRUNCH_LC, J_JANE_INNER),
      Row(U_TRK2,      P_TECHCRUNCH_LC, J_JANE),
      Row(U_UK_SUB,    P_UNKNOWN,       <<>>)
    }

\* the URLs of a run (permalinks as uploaded and landing pages of redirects), and the
\* publication names the mapping is tried on
ALL_URLS ==
    {
      <<>>,
      U_MSN_US, U_MSN_US_UC, U_MSN_ES, U_MSN_GB, U_MSN_UKSUB, U_MSN_QUERY, U_MSN_NOLOC,
      U_MSN_WS, U_MSN_NOSCHEME, U_MSN_INPATH, U_MSN_LIKE,
      U_UK_SUB, U_UK_SUB_TR, U_TR_UK, U_TR_UK_UC, U_TR_US, U_TR_ENUS, U_TR_PTBR, U_TR_NEWS,
      U_TR_NOSCHEME, U_EX_UK, U_EX_PTBR, U_TRK1, U_TRK2,
      U_Y_SPORTS, U_Y_FIN_NEWS, U_Y_NEWS, U_Y_TECH, U_Y_UK
    }

\* URLs that more than one rule of map_group_outlet matches
RULE_URLS ==
    { U_MSN_YAHOO, U_Y_SPORTS_ENT, U_Y_ENT_LIFE, U_Y_LIFE_FIN, U_Y_NEWS_TECH }

ALL_PUBS ==
    { P_MSN, P_TECHCRUNCH_LC, P_DAILYMAIL, P_UNKNOWN, P_EXAMPLE, NaN, <<>> }

UPLOAD_ROWS == SPRINKLR_ROWS \cup CISION_ROWS

\* one cell of Series.str.strip(): NaN stays NaN
str_strip(x) == IF isna(x) THEN NaN ELSE strip(x)

\* the rows of the combined table: 'Publication Name' is stripped before the concat
COMBINED_ROWS ==
    { Row(r.Permalink, str_strip(r.PublicationName), r.Journalist) : r \in UPLOAD_ROWS }

(***************************************************************************)
(* Lookups built once per run.                                             *)
(***************************************************************************)

\* the keys one reference row contributes: blank and "nan" are left out
master_keys(row) ==
    { key \in { lower(strip(str(row.OutletName))),
               lower(strip(str(row.OutletNameFromSearches))),
               lower(strip(str(row.URL))) } : key # <<>> /\ key # NAN_TEXT }

\* master_map after the first n rows of the reference sheet; a later row overwrites
RECURSIVE build_master_map(_)
build_master_map(n) ==
    IF n = 0 THEN <<>>
    ELSE
        LET prev == build_master_map(n - 1)
            row  == detailed_list[n]
            keys == master_keys(row)
        IN  [key \in (DOMAIN prev) \cup keys |->
                IF key \in keys THEN Pair(row.Vertical, strip(row.OutletName)) ELSE prev[key]]

master_map == build_master_map(Len(detailed_list))

\* Series.str.lower().str.strip() of a cell: NaN stays NaN
str_lower_strip(x) == IF isna(x) THEN NaN ELSE strip(lower(x))

\* variant: the key built with .str.lower() only, the .str.strip() left out
author_key_unstripped(pub, name) ==
    IF isna(pub) \/ isna(name) THEN NaN
    ELSE lower(pub) \o <<"|">> \o lower(name)

\* publication + "|" + name, NaN when either side is NaN
author_key(pub, name) ==
    IF isna(pub) \/ isna(name) THEN NaN
    ELSE str_lower_strip(pub) \o <<"|">> \o str_lower_strip(name)

exus_keys ==
    { author_key(journalist_check[k].Publication, journalist_check[k].Name) :
        k \in { j \in 1..Len(journalist_check) :
                  ~isna(journalist_check[j].Geo) /\ upper(journalist_check[j].Geo) = EXUS } }

\* 'Yes' if key in exus_keys else ''
exus_mark(pub, journalist) ==
    IF author_key(pub, journalist) \in exus_keys THEN YES ELSE <<>>

(***************************************************************************)
(* The per-row loop body, and the values it can produce in a run.          *)
(***************************************************************************)

FLAG_R == <<"R">>

\* the body of `for idx, row in combined.iterrows()`: what one iteration can append
\* to the five lists, over the outcomes of the request and of the byline scrape;
\* `requests` and `scrapes` record the outcome of each requests.get of resolve_url and
\* of each byline scrape the iteration made
process_row(row) ==
    { LET resolved == resolve_url(row.Permalink, net)
          mapped   == map_group_outlet(resolved, row.PublicationName, master_map)
      IN  [resolved |-> resolved,
           j_filled |-> fill_missing_journalist(resolved, row.Journalist, scraped),
           group    |-> mapped.Group,
           outlet   |-> mapped.Outlet,
           nonus    |-> IF mark_non_us_url(resolved) THEN FLAG_R ELSE <<>>,
           requests |-> IF issues_request(row.Permalink) THEN <<net>> ELSE <<>>,
           scrapes  |-> IF scrapes_byline(resolved, row.Journalist)
                        THEN <<scraped>> ELSE <<>>] :
        net \in requests_get(str(row.Permalink)),
        scraped \in {NoByline} \cup SCRAPED_NAMES }

\* the rows of a table made of the results of a run: the resolved URL in place of the
\* permalink, the journalist as filled
RESULT_ROWS ==
    UNION { { Row(o.resolved, row.PublicationName, o.j_filled) : o \in process_row(row) } :
              row \in COMBINED_ROWS }

\* process_row of every row the combined table can hold, computed once
row_outcomes == [row \in COMBINED_ROWS \cup RESULT_ROWS |-> process_row(row)]


\* every value the Resolved_Permalink column can hold in a run: a permalink as
\* uploaded, or the landing page of a redirect
RESOLVED_URLS == ALL_URLS

\* every value the Journalist column can hold, before and after the backfill
JOURNALISTS ==
    { J_JANE, J_JANE_WS, J_JANE_INNER, J_JOHN, J_SAM, J_BLANK, <<>>, NaN } \cup SCRAPED_NAMES

\* every value the 'Publication Name' column can hold
PUBLICATIONS == { row.PublicationName : row \in COMBINED_ROWS }

\* exus_mark of every (publication, journalist) of a run, computed once
exus_marks == [pub \in PUBLICATIONS |-> [j \in JOURNALISTS |-> exus_mark(pub, j)]]

(***************************************************************************)
(* The '?' / 'R Reason' computation over the combined table.  A column is   *)
(* a sequence with one entry per row; a mask is a sequence of booleans.    *)
(***************************************************************************)

\* a column written out row by row
column(f) == SubSeq(f, 1, Len(f))

\* one cell of Series.str.lower()
str_lower(x) == IF isna(x) THEN NaN ELSE lower(x)

\* one cell of .fillna('').str.lower().str.replace(r'^[a-z]+://[^/]+', '', regex=True)
path_of(x) == strip_scheme_host(lower(IF isna(x) THEN <<>> ELSE x))

\* re.search('msn.com', s, re.I): the pattern's '.' stands for any character
re_search_msn(s) ==
    LET t == lower(s)
    IN  \E i \in 1..(Len(t) - 6) :
            /\ SubSeq(t, i, i + 2) = <<"m","s","n">>
            /\ SubSeq(t, i + 4, i + 6) = <<"c","o","m">>

\* one cell of Series.str.contains('msn.com', case=False, na=False)
str_contains_msn(x) == ~isna(x) /\ re_search_msn(x)

\* the three per-cell values above for every resolved URL of a run, computed once
url_cells ==
    [u \in RESOLVED_URLS |->
        [lower    |-> str_lower(u),
         contains |-> str_contains_msn(u),
         locale   |-> msn_locale(path_of(u))]]

\* combined['Resolved_Permalink'].str.lower()
Resolved_Permalink_lower(rp) == column([i \in 1..Len(rp) |-> url_cells[rp[i]].lower])

\* notna() & (!= "")
mask_with_url(rp) ==
    LET rpl == Resolved_Permalink_lower(rp)
    IN  [i \in 1..Len(rp) |-> ~isna(rpl[i]) /\ rpl[i] # <<>>]

\* variant: DataFrame.duplicated(subset=[col], keep='last')
duplicated_keep_last(col) ==
    [i \in 1..Len(col) |-> \E j \in (i + 1)..Len(col) : col[j] = col[i]]

\* DataFrame.duplicated(subset=[col], keep='first')
duplicated_keep_first(col) ==
    [i \in 1..Len(col) |-> \E j \in 1..(i - 1) : col[j] = col[i]]

\* variant: the duplicate test without the notna() & (!= "") guard
dup_mask_unguarded(rp) ==
    LET dup == duplicated_keep_first(Resolved_Permalink_lower(rp))
    IN  column([i \in 1..Len(rp) |-> dup[i]])

dup_mask(rp) ==
    LET with_url == mask_with_url(rp)
        dup      == duplicated_keep_first(Resolved_Permalink_lower(rp))
    IN  column([i \in 1..Len(rp) |-> with_url[i] /\ dup[i]])

exus_mask(ex) == [i \in 1..Len(ex) |-> ex[i] = YES]

\* Series.str.upper().eq('REMOVE'), used for the Group and the Outlet column
remove_mask(col) ==
    column([i \in 1..Len(col) |-> ~isna(col[i]) /\ upper(col[i]) = REMOVE])

remove_group_mask(grp) == remove_mask(grp)

remove_outlet_mask(out) == remove_mask(out)

nonus_mask(flags) == [i \in 1..Len(flags) |-> flags[i] = FLAG_R]

msn_mask(rp) == [i \in 1..Len(rp) |-> url_cells[rp[i]].contains]

\* path_series.apply(_msn_locale)
msn_loc(rp) == [i \in 1..Len(rp) |-> url_cells[rp[i]].locale]

msn_non_us_mask(rp) ==
    LET m   == msn_mask(rp)
        loc == msn_loc(rp)
    IN  column([i \in 1..Len(rp) |-> m[i] /\ ~(loc[i] \in US_MSN_LOCALES)])

\* mask1 | mask2 and mask1 & ~mask2
mask_or(a, b) == column([i \in 1..Len(a) |-> a[i] \/ b[i]])

\* variant: mask1 alone, the "& ~mask2" dropped
mask_first(a, b) == column([i \in 1..Len(a) |-> a[i]])

mask_and_not(a, b) == column([i \in 1..Len(a) |-> a[i] /\ ~b[i]])

\* variant: the '?' mask without the ExUS author term
flag_mask_no_exus(rp, ex, grp, out, flags) ==
    mask_or(dup_mask(rp),
     mask_or(remove_group_mask(grp),
      mask_or(remove_outlet_mask(out),
       mask_or(nonus_mask(flags), msn_non_us_mask(rp)))))

\* the rows that get '?' = 'R'
flag_mask(rp, ex, grp, out, flags) ==
    mask_or(dup_mask(rp),
     mask_or(exus_mask(ex),
      mask_or(remove_group_mask(grp),
       mask_or(remove_outlet_mask(out),
        mask_or(nonus_mask(flags), msn_non_us_mask(rp))))))

\* _add_reason(mask, label)
add_reason(rs, mask, label) ==
    column([i \in 1..Len(rs) |-> IF mask[i] THEN Append(rs[i], label) ELSE rs[i]])

\* variant: the same six _add_reason calls with the two locale reasons added first
build_reasons_locale_first(rp, ex, grp, out, flags) ==
    LET r0 == [i \in 1..Len(rp) |-> <<>>]
        r1 == add_reason(r0, msn_non_us_mask(rp), MSN_NON_US)
        r2 == add_reason(r1, mask_and_not(nonus_mask(flags), msn_non_us_mask(rp)), NON_US_URL)
        r3 == add_reason(r2, dup_mask(rp), DUPLICATE_URL)
        r4 == add_reason(r3, exus_mask(ex), EXUS_AUTHOR)
        r5 == add_reason(r4, remove_group_mask(grp), REMOVE_GROUP)
        r6 == add_reason(r5, remove_outlet_mask(out), REMOVE_OUTLET)
    IN  r6

\* the six _add_reason calls, in the order of the source
build_reasons(rp, ex, grp, out, flags) ==
    LET r0 == [i \in 1..Len(rp) |-> <<>>]
        r1 == add_reason(r0, dup_mask(rp), DUPLICATE_URL)
        r2 == add_reason(r1, exus_mask(ex), EXUS_AUTHOR)
        r3 == add_reason(r2, remove_group_mask(grp), REMOVE_GROUP)
        r4 == add_reason(r3, remove_outlet_mask(out), REMOVE_OUTLET)
        r5 == add_reason(r4, msn_non_us_mask(rp), MSN_NON_US)
        r6 == add_reason(r5, mask_and_not(nonus_mask(flags), msn_non_us_mask(rp)), NON_US_URL)
    IN  r6

\* f'=HYPERLINK("{x}", "{x}")' if pd.notna(x) and x != "" else ""
hyperlink(x) ==
    IF isna(x) \/ x = <<>> THEN <<>>
    ELSE <<"=","H","Y","P","E","R","L","I","N","K","(","\"">> \o x
         \o <<"\"",","," ","\"">> \o x \o <<"\"",")">>

(***************************************************************************)
(* State.                                                                  *)
(***************************************************************************)

\* largest number of rows of the combined table
MaxRows == 2

VARIABLES
    pc,                  \* where the run is
    combined,            \* the concatenated table: Permalink, PublicationName, Journalist, SourcePlatform
    ExUS_Author,         \* column 'ExUS Author'
    resolved_urls,       \* lists filled by the per-row loop
    groups,
    outlets,
    nonus_flags,
    filled_journos,
    Resolved_Permalink,  \* columns assigned after the loop
    Group,
    Outlet,
    flag,                \* column '?'
    reasons,             \* list of reason lists
    R_Reason,            \* column 'R Reason'
    output,              \* the exported table
    resolve_requests,    \* per row, the outcomes of the requests resolve_url issued
    byline_scrapes,      \* per row, the outcomes of the byline scrapes made
    run_no,              \* 1 in a run on the two exports, 2 in a run on the results of run 1
    first_run,           \* in run 2, what run 1 produced
    written_by,          \* per derived column, the steps that assigned it, in order
    fn_pc,               \* single-URL run of the mapping and locale functions
    fn_url,
    fn_pub,
    fn_pair,
    fn_nonus

vars ==
    <<pc, combined, ExUS_Author, resolved_urls, groups, outlets, nonus_flags,
      filled_journos, Resolved_Permalink, Group, Outlet, flag, reasons, R_Reason,
      output, resolve_requests, byline_scrapes, run_no, first_run, written_by,
      fn_pc, fn_url, fn_pub, fn_pair, fn_nonus>>

pipeline_vars ==
    <<pc, combined, ExUS_Author, resolved_urls, groups, outlets, nonus_flags,
      filled_journos, Resolved_Permalink, Group, Outlet, flag, reasons, R_Reason,
      output, resolve_requests, byline_scrapes, run_no, first_run, written_by>>

fn_vars == <<fn_pc, fn_url, fn_pub, fn_pair, fn_nonus>>

n_rows == Len(combined)

\* a column holding the same value in every row
blank_column(n) == [i \in 1..n |-> <<>>]

\* pd.concat([sprinklr, cision], ignore_index=True), each with its 'Source Platform'
\* and its 'Publication Name' stripped
concat(sprinklr, cision) ==
    [i \in 1..(Len(sprinklr) + Len(cision)) |->
        IF i <= Len(sprinklr)
        THEN [Permalink       |-> sprinklr[i].Permalink,
              PublicationName |-> str_strip(sprinklr[i].PublicationName),
              Journalist      |-> sprinklr[i].Journalist,
              SourcePlatform  |-> SPRINKLR]
        ELSE [Permalink       |-> cision[i - Len(sprinklr)].Permalink,
              PublicationName |-> str_strip(cision[i - Len(sprinklr)].PublicationName),
              Journalist      |-> cision[i - Len(sprinklr)].Journalist,
              SourcePlatform  |-> CISION]]

\* the two uploads: both are non-empty (the app stops otherwise)
Uploaded(table) ==
    \E a \in 1..(MaxRows - 1) : \E b \in 1..(MaxRows - a) :
        \E sprinklr \in [1..a -> SPRINKLR_ROWS] : \E cision \in [1..b -> CISION_ROWS] :
            table = concat(sprinklr, cision)

\* the derived columns
DERIVED_COLUMNS == {"Resolved_Permalink", "Group", "Outlet", "ExUS_Author", "flag", "reasons"}

\* no derived column assigned yet
not_written == [c \in DERIVED_COLUMNS |-> <<>>]

\* written_by after the step named step has assigned the columns cols
assigned(cols, step) ==
    [c \in DERIVED_COLUMNS |-> IF c \in cols THEN Append(written_by[c], step) ELSE written_by[c]]

FnIdle ==
    /\ fn_pc = "off"
    /\ fn_url = <<>>
    /\ fn_pub = <<>>
    /\ fn_pair = Pair(<<>>, <<>>)
    /\ fn_nonus = FALSE

\* the table after concatenation and the blank manual-entry columns
Init ==
    /\ pc = "mark_exus"
    /\ Uploaded(combined)
    /\ ExUS_Author = blank_column(n_rows)
    /\ Group = blank_column(n_rows)
    /\ Outlet = blank_column(n_rows)
    /\ flag = blank_column(n_rows)
    /\ resolved_urls = <<>>
    /\ groups = <<>>
    /\ outlets = <<>>
    /\ nonus_flags = <<>>
    /\ filled_journos = <<>>
    /\ Resolved_Permalink = <<>>
    /\ reasons = <<>>
    /\ R_Reason = <<>>
    /\ output = <<>>
    /\ resolve_requests = <<>>
    /\ byline_scrapes = <<>>
    /\ run_no = 1
    /\ first_run = <<>>
    /\ written_by = not_written
    /\ FnIdle

(***************************************************************************)
(* Steps of a run.                                                         *)
(***************************************************************************)

\* ExUS author marking from the "Journalist Check" sheet
MarkExUS ==
    /\ pc = "mark_exus"
    /\ ExUS_Author' =
          [i \in 1..n_rows |-> exus_marks[combined[i].PublicationName][combined[i].Journalist]]
    /\ pc' = "loop"
    /\ UNCHANGED <<combined, resolved_urls, groups, outlets, nonus_flags, filled_journos,
                   Resolved_Permalink, Group, Outlet, flag, reasons, R_Reason, output>>
    /\ UNCHANGED <<resolve_requests, byline_scrapes, run_no, first_run>>
    /\ written_by' = assigned({"ExUS_Author"}, "mark_exus")
    /\ UNCHANGED fn_vars

\* one iteration of the loop
ProcessRow ==
    /\ pc = "loop"
    /\ Len(resolved_urls) < n_rows
    /\ LET row == combined[Len(resolved_urls) + 1]
       IN  \E o \in row_outcomes[Row(row.Permalink, row.PublicationName, row.Journalist)] :
             /\ resolved_urls' = Append(resolved_urls, o.resolved)
             /\ filled_journos' = Append(filled_journos, o.j_filled)
             /\ groups' = Append(groups, o.group)
             /\ outlets' = Append(outlets, o.outlet)
             /\ nonus_flags' = Append(nonus_flags, o.nonus)
             /\ resolve_requests' = Append(resolve_requests, o.requests)
             /\ byline_scrapes' = Append(byline_scrapes, o.scrapes)
    /\ UNCHANGED <<run_no, first_run, written_by>>
    /\ UNCHANGED <<pc, combined, ExUS_Author, Resolved_Permalink, Group, Outlet, flag,
                   reasons, R_Reason, output>>
    /\ UNCHANGED fn_vars

\* variant: the columns are assigned but the ExUS mapping is not re-run
AssignColumns_no_remark ==
    /\ pc = "loop"
    /\ Len(resolved_urls) = n_rows
    /\ Resolved_Permalink' = resolved_urls
    /\ Group' = groups
    /\ Outlet' = outlets
    /\ combined' = [i \in 1..n_rows |-> [combined[i] EXCEPT !.Journalist = filled_journos[i]]]
    /\ pc' = "flag"
    /\ UNCHANGED <<ExUS_Author, resolved_urls, groups, outlets, nonus_flags, filled_journos,
                   flag, reasons, R_Reason, output>>
    /\ UNCHANGED <<resolve_requests, byline_scrapes, run_no, first_run>>
    /\ written_by' = assigned({"Resolved_Permalink", "Group", "Outlet"}, "assign")
    /\ UNCHANGED fn_vars

\* the loop is over: the lists become columns and the ExUS mapping is re-run on
\* the journalists as filled
AssignColumns ==
    /\ pc = "loop"
    /\ Len(resolved_urls) = n_rows
    /\ Resolved_Permalink' = resolved_urls
    /\ Group' = groups
    /\ Outlet' = outlets
    /\ combined' = [i \in 1..n_rows |-> [combined[i] EXCEPT !.Journalist = filled_journos[i]]]
    /\ ExUS_Author' =
          [i \in 1..n_rows |-> exus_marks[combined[i].PublicationName][filled_journos[i]]]
    /\ pc' = "flag"
    /\ UNCHANGED <<resolved_urls, groups, outlets, nonus_flags, filled_journos, flag,
                   reasons, R_Reason, output>>
    /\ UNCHANGED <<resolve_requests, byline_scrapes, run_no, first_run>>
    /\ written_by' = assigned({"Resolved_Permalink", "Group", "Outlet", "ExUS_Author"}, "assign")
    /\ UNCHANGED fn_vars

\* variant: the flag stage re-runs the ExUS author mapping before it builds the masks
FlagRows_remarking ==
    /\ pc = "flag"
    /\ LET m  == flag_mask(Resolved_Permalink, ExUS_Author, Group, Outlet, nonus_flags)
           rs == build_reasons(Resolved_Permalink, ExUS_Author, Group, Outlet, nonus_flags)
       IN  /\ flag' = column([i \in 1..n_rows |-> IF m[i] THEN FLAG_R ELSE <<>>])
           /\ reasons' = rs
           /\ R_Reason' = column([i \in 1..n_rows |-> join(rs[i], REASON_SEP)])
    /\ ExUS_Author' =
          [i \in 1..n_rows |-> exus_marks[combined[i].PublicationName][combined[i].Journalist]]
    /\ pc' = "export"
    /\ UNCHANGED <<combined, resolved_urls, groups, outlets, nonus_flags,
                   filled_journos, Resolved_Permalink, Group, Outlet, output>>
    /\ UNCHANGED <<resolve_requests, byline_scrapes, run_no, first_run>>
    /\ written_by' = assigned({"flag", "reasons", "ExUS_Author"}, "flag")
    /\ UNCHANGED fn_vars

\* centralized ? = 'R' logic and R Reason
FlagRows ==
    /\ pc = "flag"
    /\ LET m  == flag_mask(Resolved_Permalink, ExUS_Author, Group, Outlet, nonus_flags)
           rs == build_reasons(Resolved_Permalink, ExUS_Author, Group, Outlet, nonus_flags)
       IN  /\ flag' = column([i \in 1..n_rows |-> IF m[i] THEN FLAG_R ELSE <<>>])
           /\ reasons' = rs
           /\ R_Reason' = column([i \in 1..n_rows |-> join(rs[i], REASON_SEP)])
    /\ pc' = "export"
    /\ UNCHANGED <<combined, ExUS_Author, resolved_urls, groups, outlets, nonus_flags,
                   filled_journos, Resolved_Permalink, Group, Outlet, output>>
    /\ UNCHANGED <<resolve_requests, byline_scrapes, run_no, first_run>>
    /\ written_by' = assigned({"flag", "reasons"}, "flag")
    /\ UNCHANGED fn_vars

\* variant: only the rows without 'R' are exported
Export_unflagged_only ==
    /\ pc = "export"
    /\ output' =
          LET rows == [i \in 1..n_rows |->
                         [PublicationName |-> combined[i].PublicationName,
                          Group           |-> Group[i],
                          Outlet          |-> Outlet[i],
                          Permalink       |-> hyperlink(Resolved_Permalink[i]),
                          flag            |-> flag[i],
                          Journalist      |-> combined[i].Journalist,
                          ExUS_Author     |-> ExUS_Author[i],
                          SourcePlatform  |-> combined[i].SourcePlatform,
                          R_Reason        |-> R_Reason[i]]]
          IN  SelectSeq(rows, LAMBDA r : r.flag # FLAG_R)
    /\ pc' = "done"
    /\ UNCHANGED <<combined, ExUS_Author, resolved_urls, groups, outlets, nonus_flags,
                   filled_journos, Resolved_Permalink, Group, Outlet, flag, reasons,
                   R_Reason>>
    /\ UNCHANGED <<resolve_requests, byline_scrapes, run_no, first_run>>
    /\ UNCHANGED written_by
    /\ UNCHANGED fn_vars

\* the permalink becomes a hyperlink formula and the final columns are selected
Export ==
    /\ pc = "export"
    /\ output' =
          [i \in 1..n_rows |->
              [PublicationName |-> combined[i].PublicationName,
               Group           |-> Group[i],
               Outlet          |-> Outlet[i],
               Permalink       |-> hyperlink(Resolved_Permalink[i]),
               flag            |-> flag[i],
               Journalist      |-> combined[i].Journalist,
               ExUS_Author     |-> ExUS_Author[i],
               SourcePlatform  |-> combined[i].SourcePlatform,
               R_Reason        |-> R_Reason[i]]]
    /\ pc' = "done"
    /\ UNCHANGED <<combined, ExUS_Author, resolved_urls, groups, outlets, nonus_flags,
                   filled_journos, Resolved_Permalink, Group, Outlet, flag, reasons,
                   R_Reason>>
    /\ UNCHANGED <<resolve_requests, byline_scrapes, run_no, first_run>>
    /\ UNCHANGED written_by
    /\ UNCHANGED fn_vars

Next ==
    \/ MarkExUS
    \/ ProcessRow
    \/ AssignColumns
    \/ FlagRows
    \/ Export

Spec == Init /\ [][Next]_vars

(***************************************************************************)
(* A second run, on the results of the first.                              *)
(***************************************************************************)

\* the table a second run is given: each row of the output with its resolved URL as
\* permalink; 'Publication Name' is stripped again before the concat
fed_back ==
    [i \in 1..n_rows |->
        [Permalink       |-> Resolved_Permalink[i],
         PublicationName |-> str_strip(output[i].PublicationName),
         Journalist      |-> output[i].Journalist,
         SourcePlatform  |-> output[i].SourcePlatform]]

\* the app is run again on the results of the finished run
FeedBack ==
    /\ pc = "done"
    /\ run_no = 1
    /\ first_run' =
          [i \in 1..n_rows |->
              [resolved |-> Resolved_Permalink[i],
               group    |-> Group[i],
               outlet   |-> Outlet[i],
               reasons  |-> reasons[i],
               requests |-> resolve_requests[i],
               scrapes  |-> byline_scrapes[i]]]
    /\ run_no' = 2
    /\ combined' = fed_back
    /\ pc' = "mark_exus"
    /\ ExUS_Author' = blank_column(n_rows)
    /\ Group' = blank_column(n_rows)
    /\ Outlet' = blank_column(n_rows)
    /\ flag' = blank_column(n_rows)
    /\ resolved_urls' = <<>>
    /\ groups' = <<>>
    /\ outlets' = <<>>
    /\ nonus_flags' = <<>>
    /\ filled_journos' = <<>>
    /\ Resolved_Permalink' = <<>>
    /\ reasons' = <<>>
    /\ R_Reason' = <<>>
    /\ output' = <<>>
    /\ resolve_requests' = <<>>
    /\ byline_scrapes' = <<>>
    /\ written_by' = not_written
    /\ UNCHANGED fn_vars

NextRerun ==
    \/ Next
    \/ FeedBack

SpecRerun == Init /\ [][NextRerun]_vars

(***************************************************************************)
(* The mapping and locale functions applied to one resolved URL.           *)
(***************************************************************************)

InitUrl ==
    /\ pc = "off"
    /\ combined = <<>>
    /\ ExUS_Author = <<>>
    /\ Group = <<>>
    /\ Outlet = <<>>
    /\ flag = <<>>
    /\ resolved_urls = <<>>
    /\ groups = <<>>
    /\ outlets = <<>>
    /\ nonus_flags = <<>>
    /\ filled_journos = <<>>
    /\ Resolved_Permalink = <<>>
    /\ reasons = <<>>
    /\ R_Reason = <<>>
    /\ output = <<>>
    /\ resolve_requests = <<>>
    /\ byline_scrapes = <<>>
    /\ run_no = 0
    /\ first_run = <<>>
    /\ written_by = not_written
    /\ fn_pc = "input"
    /\ fn_url \in ALL_URLS \cup RULE_URLS
    /\ fn_pub \in ALL_PUBS
    /\ fn_pair = Pair(<<>>, <<>>)
    /\ fn_nonus = FALSE

\* group, outlet = map_group_outlet(resolved, pub, master_map);  mark_non_us_url(resolved)
Classify ==
    /\ fn_pc = "input"
    /\ fn_pair' = map_group_outlet(fn_url, fn_pub, master_map)
    /\ fn_nonus' = mark_non_us_url(fn_url)
    /\ fn_pc' = "classified"
    /\ UNCHANGED <<fn_url, fn_pub>>
    /\ UNCHANGED pipeline_vars

NextUrl == Classify

SpecUrl == InitUrl /\ [][NextUrl]_vars


(***************************************************************************)
(* Properties of the flag stage.  They are stated over the table as it     *)
(* stands once '?' and 'R Reason' have been written.                       *)
(***************************************************************************)

\* '?' and 'R Reason' have been written
Flagged == pc \in {"export", "done"}

\* the reason list of row i holds `label`
has_reason(i, label) == \E k \in 1..Len(reasons[i]) : reasons[i][k] = label

\* the raw permalink of row i is empty or null
raw_permalink_empty(i) == combined[i].Permalink = <<>> \/ combined[i].Permalink = NaN

\* C1: a row carries "Duplicate URL" if and only if its resolved URL is non-empty and
\* an earlier row of the concatenated table has the same resolved URL, compared
\* case-insensitively; so the first occurrence never carries it and every later one does.
C1_DuplicateUrl ==
    Flagged =>
        \A i \in 1..n_rows :
            has_reason(i, DUPLICATE_URL) <=>
                /\ Resolved_Permalink[i] # <<>>
                /\ \E j \in 1..(i - 1) :
                       lower(Resolved_Permalink[j]) = lower(Resolved_Permalink[i])

\* a later row repeats the resolved URL of an earlier one in another letter case and
\* carries "Duplicate URL", while the earlier row does not
C1_Witness ==
    /\ Flagged
    /\ \E i \in 1..n_rows : \E j \in 1..(i - 1) :
           /\ Resolved_Permalink[i] # <<>>
           /\ Resolved_Permalink[j] # Resolved_Permalink[i]
           /\ lower(Resolved_Permalink[j]) = lower(Resolved_Permalink[i])
           /\ has_reason(i, DUPLICATE_URL)
           /\ ~has_reason(j, DUPLICATE_URL)

\* C2: a row whose raw permalink is empty or null has the empty string as resolved
\* permalink and carries none of "Duplicate URL", "Non-US URL", "MSN Non-US", however
\* many other rows have an empty permalink too.
C2_EmptyPermalink ==
    Flagged =>
        \A i \in 1..n_rows :
            raw_permalink_empty(i) =>
                /\ Resolved_Permalink[i] = <<>>
                /\ ~has_reason(i, DUPLICATE_URL)
                /\ ~has_reason(i, NON_US_URL)
                /\ ~has_reason(i, MSN_NON_US)

\* a flagged table in which a row with a null permalink precedes a row with an empty one
C2_Witness ==
    /\ Flagged
    /\ \E i \in 1..n_rows : \E j \in 1..(i - 1) :
           /\ combined[j].Permalink = NaN
           /\ combined[i].Permalink = <<>>
           /\ Resolved_Permalink[i] = <<>>
           /\ Resolved_Permalink[j] = <<>>

\* C3: in the final output, '?' equals 'R' on a row if and only if the row's reason
\* list, and so its 'R Reason', is non-empty.
C3_FlagIffReasons ==
    /\ Flagged =>
          \A i \in 1..n_rows : (flag[i] = FLAG_R) <=> (reasons[i] # <<>>)
    /\ pc = "done" =>
          \A i \in 1..n_rows : (output[i].flag = FLAG_R) <=> (output[i].R_Reason # <<>>)

\* the exported table holds a row flagged for the ExUS author alone next to a row
\* with no reason and no flag
C3_Witness ==
    /\ pc = "done"
    /\ \E i \in 1..n_rows : output[i].flag = FLAG_R /\ reasons[i] = <<EXUS_AUTHOR>>
    /\ \E i \in 1..n_rows : output[i].flag = <<>> /\ output[i].R_Reason = <<>>

\* the lowercased path of a URL begins with the segment /en-us or /es-us
begins_with_us_locale(u) ==
    LET path == lower(urlparse(str(u)).path)
    IN  \E loc \in US_MSN_LOCALES :
            \/ path = <<"/">> \o loc
            \/ startswith(path, <<"/">> \o loc \o <<"/">>)

\* C4: for a resolved URL containing the marker "msn.com", map_group_outlet returns
\* ("Tech", "MSN") when the path begins with the segment /en-us or /es-us, and
\* ("REMOVE", "REMOVE") when the first path segment is another locale or no locale.
C4_MsnLocaleMapping ==
    (fn_pc = "classified" /\ contains(lower(strip(str(fn_url))), MSN_MARKER)) =>
        IF begins_with_us_locale(fn_url)
        THEN fn_pair = Pair(TECH, MSN)
        ELSE fn_pair = Pair(REMOVE, REMOVE)

\* the host of a URL is the aggregator domain or a subdomain of it
from_aggregator(u) ==
    LET host == lower(urlparse(str(u)).netloc)
    IN  host = MSN_MARKER \/ endswith(host, <<".">> \o MSN_MARKER)

\* C5: a row whose resolved URL is from the aggregator domain with a locale outside
\* {en-us, es-us} carries "REMOVE Group", "REMOVE Outlet" and "MSN Non-US", and is flagged.
C5_AggregatorNonUs ==
    Flagged =>
        \A i \in 1..n_rows :
            (from_aggregator(Resolved_Permalink[i])
                 /\ ~begins_with_us_locale(Resolved_Permalink[i])) =>
                /\ has_reason(i, REMOVE_GROUP)
                /\ has_reason(i, REMOVE_OUTLET)
                /\ has_reason(i, MSN_NON_US)
                /\ flag[i] = FLAG_R

\* a tracking link that landed on an en-gb aggregator page carries the three reasons
C5_Witness ==
    /\ Flagged
    /\ \E i \in 1..n_rows :
           /\ combined[i].Permalink = U_TRK2
           /\ Resolved_Permalink[i] = U_MSN_GB
           /\ from_aggregator(Resolved_Permalink[i])
           /\ ~begins_with_us_locale(Resolved_Permalink[i])
           /\ has_reason(i, REMOVE_GROUP)
           /\ has_reason(i, REMOVE_OUTLET)
           /\ has_reason(i, MSN_NON_US)
           /\ flag[i] = FLAG_R

\* C6: no row carries both "MSN Non-US" and "Non-US URL"; "Non-US URL" is attached
\* exactly when the locale classifier returned true for the row and "MSN Non-US" did
\* not fire for it.
C6_OneLocaleReason ==
    Flagged =>
        \A i \in 1..n_rows :
            /\ ~(has_reason(i, MSN_NON_US) /\ has_reason(i, NON_US_URL))
            /\ has_reason(i, NON_US_URL) <=>
                   (nonus_flags[i] = FLAG_R /\ ~has_reason(i, MSN_NON_US))

\* the classifier returned true for an aggregator row that carries "MSN Non-US" alone,
\* and another row carries "Non-US URL"
C6_Witness ==
    /\ Flagged
    /\ \E i \in 1..n_rows :
           /\ nonus_flags[i] = FLAG_R
           /\ has_reason(i, MSN_NON_US)
           /\ ~has_reason(i, NON_US_URL)
    /\ \E i \in 1..n_rows : has_reason(i, NON_US_URL)

\* the fixed order of the reasons
REASON_ORDER ==
    <<DUPLICATE_URL, EXUS_AUTHOR, REMOVE_GROUP, REMOVE_OUTLET, MSN_NON_US, NON_US_URL>>

\* the reasons of row i, each once, in the fixed order
reasons_in_order(i) == SelectSeq(REASON_ORDER, LAMBDA r : has_reason(i, r))

\* C7: the rendered reason string of a row lists the reasons that fired, each at most
\* once, in the order Duplicate URL, ExUS Author, REMOVE Group, REMOVE Outlet,
\* MSN Non-US, Non-US URL, joined by "; ", whatever the row's position.
C7_ReasonOrder ==
    /\ Flagged =>
          \A i \in 1..n_rows :
              /\ reasons[i] = reasons_in_order(i)
              /\ R_Reason[i] = join(reasons_in_order(i), REASON_SEP)
    /\ pc = "done" =>
          \A i \in 1..n_rows : output[i].R_Reason = join(reasons_in_order(i), REASON_SEP)

\* a row of the exported table with five reasons rendered in that order
C7_Witness ==
    /\ pc = "done"
    /\ \E i \in 1..n_rows :
           /\ Len(reasons[i]) = 5
           /\ output[i].R_Reason =
                  <<"D","u","p","l","i","c","a","t","e"," ","U","R","L",";"," ","E","x","U","S"," ","A","u","t","h","o","r",";"," ","R","E","M","O","V","E"," ","G","r","o","u","p",";"," ","R","E","M","O","V","E"," ","O","u","t","l","e","t",";"," ","M","S","N"," ","N","o","n","-","U","S">>

\* the key of a publication and a journalist
exact_key(pub, name) == lower(strip(pub)) \o <<"|">> \o lower(strip(name))

\* the key of row i is the key of a reference entry whose geo is EXUS in any case
matches_exus_entry(i) ==
    /\ combined[i].PublicationName # NaN
    /\ combined[i].Journalist # NaN
    /\ \E k \in 1..Len(journalist_check) :
           /\ journalist_check[k].Geo # NaN
           /\ journalist_check[k].Publication # NaN
           /\ journalist_check[k].Name # NaN
           /\ upper(journalist_check[k].Geo) = EXUS
           /\ exact_key(journalist_check[k].Publication, journalist_check[k].Name)
                  = exact_key(combined[i].PublicationName, combined[i].Journalist)

\* C8: a row carries "ExUS Author" if and only if lowercase(trim(publication)) + "|" +
\* lowercase(trim(journalist)) equals the key of a reference entry whose geo is EXUS
\* (case-insensitively): case and outer whitespace do not matter, inner whitespace and
\* spelling do.
C8_ExusExactKey ==
    Flagged =>
        \A i \in 1..n_rows : has_reason(i, EXUS_AUTHOR) <=> matches_exus_entry(i)

\* " JANE DOE " matches the entry of Jane Doe, "Jane  Doe" does not
C8_Witness ==
    /\ Flagged
    /\ \E i \in 1..n_rows :
           /\ combined[i].Journalist = J_JANE_WS
           /\ has_reason(i, EXUS_AUTHOR)
    /\ \E i \in 1..n_rows :
           /\ combined[i].Journalist = J_JANE_INNER
           /\ lower(strip(combined[i].PublicationName)) = lower(P_TECHCRUNCH)
           /\ ~has_reason(i, EXUS_AUTHOR)

\* the labels of the host of a URL
host_labels(u) == split(lower(urlparse(str(u)).netloc), ".")

\* a label of the host left of the registrable domain is a region token
has_region_subdomain(u) ==
    LET labels == host_labels(u)
        n      == Len(labels)
        k      == suffix_labels(labels)
    IN  \E j \in 1..(n - k - 1) : labels[j] \in NON_US_SUBDOMAIN_TOKENS

\* the registrable domain of the host of a URL
registrable_domain(u) ==
    LET labels == host_labels(u)
        n      == Len(labels)
        k      == suffix_labels(labels)
    IN  IF n - k >= 1 THEN join(SubSeq(labels, n - k, n), <<".">>)
        ELSE join(SubSeq(labels, n - k + 1, n), <<".">>)

\* the first non-empty segment of the path of a URL, lowercased
first_path_segment(u) ==
    LET segs == split(urlparse(str(u)).path, "/")
        full == {k \in 1..Len(segs) : segs[k] # <<>>}
    IN  IF full = {} THEN <<>>
        ELSE lower(segs[CHOOSE k \in full : \A j \in full : k <= j])

\* C9: mark_non_us_url returns true for every URL whose host has a subdomain segment
\* equal to a region token, whether or not the base domain is on the path-locale
\* allow-list and whatever the first path segment is, an explicit /us/ included.
C9_SubdomainRule ==
    (fn_pc = "classified" /\ has_region_subdomain(fn_url)) => fn_nonus

\* uk.example.com/us/story: a region subdomain, a base domain off the allow-list and
\* an explicit US first segment
C9_Witness ==
    /\ fn_pc = "classified"
    /\ has_region_subdomain(fn_url)
    /\ registrable_domain(fn_url) \notin PATH_LOCALE_ALLOWED_DOMAINS
    /\ first_path_segment(fn_url) = US
    /\ fn_nonus

\* the first path segment is an explicit US variant
explicit_us(seg) == endswith(seg, US) \/ seg \in US_PATH_TOKENS

\* C10: for a URL with no region-token subdomain, mark_non_us_url returns true if and
\* only if the base domain is on the allow-list and the first non-empty path segment
\* is a region token or matches the language-region pattern, and is not an explicit
\* US variant.
C10_PathRule ==
    (fn_pc = "classified" /\ ~has_region_subdomain(fn_url)) =>
        (fn_nonus <=>
            /\ registrable_domain(fn_url) \in PATH_LOCALE_ALLOWED_DOMAINS
            /\ \/ first_path_segment(fn_url) \in NON_US_SUBDOMAIN_TOKENS
               \/ lang_region_re(first_path_segment(fn_url))
            /\ ~explicit_us(first_path_segment(fn_url)))

\* an allow-listed domain with the first segment pt-br, found by the pattern alone
C10_Witness ==
    /\ fn_pc = "classified"
    /\ ~has_region_subdomain(fn_url)
    /\ registrable_domain(fn_url) \in PATH_LOCALE_ALLOWED_DOMAINS
    /\ first_path_segment(fn_url) \notin NON_US_SUBDOMAIN_TOKENS
    /\ lang_region_re(first_path_segment(fn_url))
    /\ fn_nonus

(***************************************************************************)
(* Properties of the run as a whole.                                       *)
(***************************************************************************)

\* the request resolve_url issued for row i raised
net_failed(i) == resolve_requests[i] = <<NetFail>>

\* C11: a network failure while resolving a row is never fatal: resolve_url returns the
\* row's permalink unchanged, the run goes on to resolve, classify and flag every
\* other row, and the failed row is deduplicated and classified on its unresolved link.
C11_NetworkFailureNotFatal ==
    /\ \A i \in 1..Len(resolved_urls) :
           net_failed(i) => resolved_urls[i] = combined[i].Permalink
    /\ ((\E i \in 1..Len(resolved_urls) : net_failed(i))
            /\ pc = "loop" /\ Len(resolved_urls) < n_rows) => ENABLED ProcessRow
    /\ Flagged =>
          \A i \in 1..n_rows :
              net_failed(i) =>
                  LET raw == combined[i].Permalink
                      pub == combined[i].PublicationName
                  IN  /\ Resolved_Permalink[i] = raw
                      /\ Group[i] = map_group_outlet(raw, pub, master_map).Group
                      /\ Outlet[i] = map_group_outlet(raw, pub, master_map).Outlet
                      /\ (nonus_flags[i] = FLAG_R) <=> mark_non_us_url(raw)
                      /\ has_reason(i, DUPLICATE_URL) <=>
                             \E j \in 1..(i - 1) :
                                 lower(Resolved_Permalink[j]) = lower(raw)
    /\ Flagged => (Len(flag) = n_rows /\ Len(reasons) = n_rows /\ Len(Group) = n_rows)
    /\ pc = "done" => Len(output) = n_rows

\* the request of the first row raised and the row keeps its tracking link; the second
\* row was resolved through its redirect, classified and flagged, and both are exported
C11_Witness ==
    /\ pc = "done"
    /\ Len(output) = 2
    /\ net_failed(1)
    /\ combined[1].Permalink = U_TRK1
    /\ Resolved_Permalink[1] = U_TRK1
    /\ resolve_requests[2] = <<U_MSN_GB>>
    /\ Resolved_Permalink[2] = U_MSN_GB
    /\ Group[2] = REMOVE
    /\ flag[2] = FLAG_R

\* row i of the table stays the row it was: its raw permalink, publication and source
\* platform are kept by the step, and so is the number of rows
rows_kept ==
    /\ Len(combined') = Len(combined)
    /\ \A i \in 1..Len(combined) :
           /\ combined'[i].Permalink = combined[i].Permalink
           /\ combined'[i].PublicationName = combined[i].PublicationName
           /\ combined'[i].SourcePlatform = combined[i].SourcePlatform

Reflagged == run_no = 2 /\ Flagged

\* row i has the same group, outlet and reason list in both runs
same_results(i) ==
    /\ Group[i] = first_run[i].group
    /\ Outlet[i] = first_run[i].outlet
    /\ reasons[i] = first_run[i].reasons

\* the web answers the second run as it answered the first: a request or a byline
\* scrape that failed in run 1 fails again, and the end of a redirect chain still is one
same_web ==
    \A i \in 1..n_rows :
        /\ first_run[i].requests = <<NetFail>> => resolve_requests[i] = <<NetFail>>
        /\ first_run[i].scrapes = <<NoByline>> => byline_scrapes[i] = <<NoByline>>
        /\ (first_run[i].requests # <<>> /\ first_run[i].requests # <<NetFail>>) =>
               resolve_requests[i] \in {<<NetFail>>, <<first_run[i].resolved>>}

VERTICAL_RULES ==
    << <<YAHOO_SPORTS_SUB, Pair(LIFESTYLE, YAHOO_SPORTS)>>,
       <<YAHOO_ENT_SUB,    Pair(LIFESTYLE, YAHOO_ENT)>>,
       <<YAHOO_LIFE_SUB,   Pair(LIFESTYLE, YAHOO_LIFE)>>,
       <<YAHOO_FIN_SUB,    Pair(TECH, YAHOO_FIN)>>,
       <<YAHOO_NEWS_SUB,   Pair(TECH, YAHOO_NEWS)>>,
       <<YAHOO_TECH_SUB,   Pair(TECH, YAHOO_TECH)>> >>

\* the vertical rules whose substring occurs in u
matching_rules(u) == { k \in 1..Len(VERTICAL_RULES) : contains(u, VERTICAL_RULES[k][1]) }

\* the reference rows one of whose three cells, trimmed and lowercased, is key
sheet_rows(key) ==
    { n \in 1..Len(detailed_list) :
        key \in { lower(strip(str(detailed_list[n].OutletName))),
                  lower(strip(str(detailed_list[n].OutletNameFromSearches))),
                  lower(strip(str(detailed_list[n].URL))) } }

\* a key the reference table can match: blank and "nan" never do
usable_key(key) == key # <<>> /\ key # NAN_TEXT /\ sheet_rows(key) # {}

\* the pair of the last reference row that carries key
sheet_pair(key) ==
    LET n == CHOOSE m \in sheet_rows(key) : \A k \in sheet_rows(key) : k <= m
    IN  Pair(detailed_list[n].Vertical, strip(detailed_list[n].OutletName))

\* C14: map_group_outlet takes the first rule that matches, in the order aggregator
\* rule, the six vertical substrings as listed, reference table by publication name,
\* reference table by URL; blank and "nan" keys never match; otherwise ("", "").
C14_RuleOrder ==
    fn_pc = "classified" =>
        LET u == lower(strip(str(fn_url)))
            p == lower(strip(str(fn_pub)))
        IN  IF contains(u, MSN_MARKER)
            THEN fn_pair \in {Pair(TECH, MSN), Pair(REMOVE, REMOVE)}
            ELSE IF matching_rules(u) # {}
            THEN \E k \in matching_rules(u) :
                    /\ \A j \in matching_rules(u) : k <= j
                    /\ fn_pair = VERTICAL_RULES[k][2]
            ELSE IF usable_key(p) THEN fn_pair = sheet_pair(p)
            ELSE IF usable_key(u) THEN fn_pair = sheet_pair(u)
            ELSE fn_pair = Pair(<<>>, <<>>)

\* a URL with both finance.yahoo.com and yahoo.com/news, under a publication name the
\* reference table knows, is mapped by the finance rule
C14_Witness ==
    /\ fn_pc = "classified"
    /\ fn_url = U_Y_FIN_NEWS
    /\ fn_pub = P_DAILYMAIL
    /\ Cardinality(matching_rules(lower(fn_url))) = 2
    /\ usable_key(lower(fn_pub))
    /\ fn_pair = Pair(TECH, YAHOO_FIN)

(***************************************************************************)
(* Requests issued by resolve_url, and the aggregator special case.        *)
(***************************************************************************)

\* the host of a URL, lowercased; without a scheme, the text before the first / ? #
host_text(u) ==
    LET s == lstrip(str(u))
        p == urlparse(s)
    IN  IF p.netloc # <<>> THEN lower(p.netloc)
        ELSE IF p.scheme = <<>> THEN lower(take(s, find_first(s, {"/", "?", "#"})))
        ELSE <<>>

\* an aggregator URL: the host contains the marker
host_has_marker(u) == ~isna(u) /\ contains(host_text(u), MSN_MARKER)

\* the input of resolve_url is empty or null
no_input(u) == isna(u) \/ u = <<>>

\* C15: resolve_url issues no request for an empty/null input or an aggregator URL,
\* which it returns unchanged, and exactly one request for every other input.
C15_RequestCount ==
    \A i \in 1..Len(resolve_requests) :
        LET raw == combined[i].Permalink
        IN  IF no_input(raw) THEN resolve_requests[i] = <<>>
            ELSE IF host_has_marker(raw)
            THEN resolve_requests[i] = <<>> /\ resolved_urls[i] = raw
            ELSE Len(resolve_requests[i]) = 1

\* what map_group_outlet gives when the aggregator rule is left out
mapped_by_other_rules(u, p) ==
    IF matching_rules(u) # {}
    THEN VERTICAL_RULES[CHOOSE k \in matching_rules(u) : \A j \in matching_rules(u) : k <= j][2]
    ELSE IF usable_key(p) THEN sheet_pair(p)
    ELSE IF usable_key(u) THEN sheet_pair(u)
    ELSE Pair(<<>>, <<>>)

\* C17: a URL whose host does not contain "msn.com" is resolved over the network, is
\* not mapped by the aggregator rule, and never receives the reason "MSN Non-US".
C17_KeyedOnHost ==
    /\ \A i \in 1..Len(resolve_requests) :
           (~no_input(combined[i].Permalink) /\ ~host_has_marker(combined[i].Permalink)) =>
               Len(resolve_requests[i]) = 1
    /\ Flagged =>
           \A i \in 1..n_rows :
               ~host_has_marker(Resolved_Permalink[i]) =>
                   /\ Pair(Group[i], Outlet[i]) =
                          mapped_by_other_rules(lower(strip(str(Resolved_Permalink[i]))),
                                                lower(strip(str(combined[i].PublicationName))))
                   /\ ~has_reason(i, MSN_NON_US)

\* map_group_outlet returned ("REMOVE", "REMOVE") through its aggregator rule
removed_by_aggregator_rule(i) ==
    /\ contains(lower(strip(str(Resolved_Permalink[i]))), MSN_MARKER)
    /\ Group[i] = REMOVE
    /\ Outlet[i] = REMOVE

\* C18: a row carries "MSN Non-US" exactly when map_group_outlet returned
\* ("REMOVE", "REMOVE") through its aggregator rule; a ("Tech", "MSN") row never does.
C18_MapperFlagAgree ==
    Flagged =>
        \A i \in 1..n_rows :
            /\ has_reason(i, MSN_NON_US) <=> removed_by_aggregator_rule(i)
            /\ (Group[i] = TECH /\ Outlet[i] = MSN) => ~has_reason(i, MSN_NON_US)

(***************************************************************************)
(* Which step writes which derived column.                                 *)
(***************************************************************************)

\* the flag stage has not started: no column of its own is written yet
before_flag_stage == pc \in {"mark_exus", "loop"}

\* the columns the flag stage owns are written by the flag stage only, once
flag_stage_owns ==
    \A c \in {"flag", "reasons"} :
        written_by[c] = IF Flagged THEN <<"flag">> ELSE <<>>

\* C16: resolved permalink, group, outlet and the excluded-author mark are
\* each written exactly once, all before the flag stage starts; the flag and the
\* reasons are written only by the flag stage.
C16_WrittenOnce ==
    /\ \A c \in {"Resolved_Permalink", "Group", "Outlet", "ExUS_Author"} :
           /\ Len(written_by[c]) <= 1
           /\ ~before_flag_stage => Len(written_by[c]) = 1
           /\ \A k \in 1..Len(written_by[c]) : written_by[c][k] # "flag"
    /\ flag_stage_owns

\* C16 with the second marking: resolved permalink, group and outlet are each written exactly once and
\* the excluded-author mark twice (before the row loop and again after the byline
\* backfill), all before the flag stage starts; the flag and the reasons are written
\* only by the flag stage.
C16_WrittenBeforeFlagStage ==
    /\ \A c \in {"Resolved_Permalink", "Group", "Outlet"} :
           written_by[c] = IF before_flag_stage THEN <<>> ELSE <<"assign">>
    /\ written_by["ExUS_Author"] =
           IF pc = "mark_exus" THEN <<>>
           ELSE IF pc = "loop" THEN <<"mark_exus">>
           ELSE <<"mark_exus", "assign">>
    /\ flag_stage_owns

\* a finished run in which the second marking, after a byline was found, set the mark
C16_Witness ==
    /\ pc = "done"
    /\ written_by["ExUS_Author"] = <<"mark_exus", "assign">>
    /\ written_by["Group"] = <<"assign">>
    /\ written_by["flag"] = <<"flag">>
    /\ \E i \in 1..n_rows :
           /\ byline_scrapes[i] = <<J_SAM>>
           /\ ExUS_Author[i] = YES
           /\ has_reason(i, EXUS_AUTHOR)
====
